---- MODULE Spec2Model ----
(***************************************************************************)
(* Retell voice agent -> Google Calendar bridge.                           *)
(*                                                                         *)
(* src/index.js is the production server: a start-up initialisation that   *)
(* builds the shared calendar handle, and four POST operations behind the  *)
(* requireCalendar middleware.  Every handler is an async function; it is   *)
(* modelled one action per run-to-next-await segment, the provider's reply *)
(* (or failure) being consumed by the segment that follows the await.      *)
(* Instants are minutes; a date is a day number, a time a minute of day.   *)
(***************************************************************************)
EXTENDS Integers, Sequences, FiniteSets, TLC

(* ---------------------------------------------------------------- bounds *)
MaxEvents == 2            \* events the provider accepts before the runs stop inserting

(* ------------------------------------------------------ program constants *)
DefaultDuration == 60     \* duration = 60
MsPerMinute == 60000      \* duration * 60000
MinutesPerDay == 1440

(* ------------------------------------------------------------ input sets *)
U == -1                                   \* a field that is undefined in args
Clients == {"c1"}                         \* connections; one request at a time on each
Titles == {U, 1}
Dates == {U, 1}
StartTimes == {U, 540, 570}               \* 09:00, 09:30
EndTimes == {U, 570, 600}                 \* 09:30, 10:00
Durations == {U, 30}
Emails == {U, 0, 1}                       \* undefined, the empty string, an address
EventIds == {U} \cup (1..MaxEvents)
ProviderErrors == {"E401", "E503"}        \* error.message of a rejected provider call

Falsy(v) == v = U \/ v = 0                \* !v

UTC == 0                                  \* offset of a server process running at UTC
DefaultZone == -360                       \* 'America/Chicago' (standard time)
Zones == {UTC, DefaultZone}

(* ----------------------------------------------------------------- state *)
VARIABLES
  initPc,       \* position of initializeGoogleCalendar
  calendar,     \* let calendar = null
  authError,    \* let authError = null
  events,       \* the provider's calendar: set of [id, start, end]
  nextId,       \* next identifier the provider hands out
  req,          \* per connection: the request being handled and its response
  rwInitPc,     \* Railway variant: position of initializeCalendar
  rwCalendar,   \* Railway variant: let calendar = null
  rwIsReady,    \* Railway variant: let isReady = false
  rwReq,        \* Railway variant: per connection request and response
  rwProc,       \* Railway variant: the process: running, closing, exit0, exit1
  rwTimer,      \* Railway variant: seconds run by the force-exit timer, U if not armed
  svAuthError,  \* src/server.js: let authError = null
  svReq,        \* src/server.js: per connection request and response
  serverZone,   \* UTC offset, in minutes, of the zone the server process runs in
  timeZone      \* UTC offset, in minutes, of process.env.TIMEZONE || 'America/Chicago'

rwVars == <<rwInitPc, rwCalendar, rwIsReady, rwReq, rwProc, rwTimer>>
svVars == <<svAuthError, svReq>>
envVars == <<serverZone, timeZone>>

(* the environment of the deployed service: process at UTC, TIMEZONE unset *)
InitEnv == serverZone = UTC /\ timeZone = DefaultZone

vars == <<initPc, calendar, authError, events, nextId, req, rwVars, svVars, envVars>>

NoArgs ==
  [title |-> U, date |-> U, startTime |-> U, endTime |-> U, duration |-> U,
   eventId |-> U, newDate |-> U, newTime |-> U, newDuration |-> U,
   attendeeEmail |-> U]

NoResp == [status |-> 0, result |-> "", n |-> U, eventId |-> U, detail |-> "none"]

NoEvent == [id |-> U, start |-> U, end |-> U]

(* the parameters of events.insert besides the window: sendUpdates, the    *)
(* keys of the event resource and its attendees array                      *)
NoInsert == [sendUpdates |-> "unset", keys |-> {}, attendees |-> <<>>, timeZone |-> U]

(* sent counts the responses written for the request (res.json calls) *)
IdleReq ==
  [op |-> "idle", pc |-> "idle", args |-> NoArgs, calls |-> <<>>,
   items |-> U, seen |-> {}, got |-> NoEvent, insert |-> NoInsert,
   logged |-> "none", sent |-> 0, resp |-> NoResp]

(* new Date(`${date}T${time}:00`): wall-clock date and time to an instant  *)
(* (no offset in the string: read in the zone of the server process);      *)
(* instants are minutes of UTC                                             *)
ParseLocal(date, time) == date * MinutesPerDay + time - serverZone

(* startDateTime.getTime() + duration * 60000, in minutes *)
AddMinutes(instant, duration) == instant + (duration * MsPerMinute) \div MsPerMinute

(* res.json(body): HTTP 200 unless res.status() was called first *)
Json(result) == [NoResp EXCEPT !.status = 200, !.result = result]

ProviderListSameStart(timeMin, timeMax) == \* variant: only events starting at timeMin
  {e \in events : e.start = timeMin}

(* calendar.events.list: events with end after timeMin and start before timeMax *)
ProviderList(timeMin, timeMax) ==
  {e \in events : e.end > timeMin /\ e.start < timeMax}

(* one provider call: list(timeMin, timeMax), insert(start, end), get(id),  *)
(* update(id, start, end), delete(id)                                      *)
Call(kind, id, a, b) == [kind |-> kind, id |-> id, a |-> a, b |-> b]

(* ------------------------------------------------------- initialisation *)
(* Module load runs initializeGoogleCalendar up to its first await: a      *)
(* missing key or unparseable JSON has already failed by then.             *)
Init ==
  /\ InitEnv
  /\ \/ /\ initPc = "getClient" /\ authError = "none"
     \/ /\ initPc = "failed"
        /\ authError \in {"GOOGLE_SERVICE_ACCOUNT_KEY environment variable not set",
                          "Unexpected token in JSON"}
  /\ calendar = "null"
  /\ events = {}
  /\ nextId = 1
  /\ req = [c \in Clients |-> IdleReq]
  /\ rwInitPc = "getClient" /\ rwCalendar = "null" /\ rwIsReady = FALSE
  /\ rwProc = "running" /\ rwTimer = U
  /\ rwReq = [c \in Clients |-> IdleReq]
  /\ svAuthError = "none" /\ svReq = [c \in Clients |-> IdleReq]

InitGetClientEscaping ==                   \* variant: the rejection leaves the function
  /\ initPc = "getClient"
  /\ \/ /\ calendar' = "handle"
        /\ initPc' = "verify"
        /\ UNCHANGED authError
     \/ /\ initPc' = "crashed"
        /\ UNCHANGED <<authError, calendar>>
  /\ UNCHANGED <<events, nextId, req, rwVars, svVars, envVars>>

(* await auth.getClient(); calendar = google.calendar(...) *)
InitGetClient ==
  /\ initPc = "getClient"
  /\ \/ /\ calendar' = "handle"
        /\ initPc' = "verify"
        /\ UNCHANGED authError
     \/ \E e \in ProviderErrors :
          /\ authError' = e
          /\ initPc' = "failed"
          /\ UNCHANGED calendar
  /\ UNCHANGED <<events, nextId, req, rwVars, svVars, envVars>>

InitVerifyResetting ==                     \* variant: the handle dropped on failure
  /\ initPc = "verify"
  /\ \/ /\ initPc' = "done"
        /\ UNCHANGED <<authError, calendar>>
     \/ \E e \in ProviderErrors :
          /\ authError' = e
          /\ calendar' = "null"
          /\ initPc' = "failed"
  /\ UNCHANGED <<events, nextId, req, rwVars, svVars, envVars>>

(* await calendar.calendarList.list({ maxResults: 1 }); return true *)
InitVerify ==
  /\ initPc = "verify"
  /\ \/ /\ initPc' = "done"
        /\ UNCHANGED authError
     \/ \E e \in ProviderErrors :
          /\ authError' = e
          /\ initPc' = "failed"
  /\ UNCHANGED <<calendar, events, nextId, req, rwVars, svVars, envVars>>

(* ------------------------------------------------------ requireCalendar *)
CalendarReady == calendar # "null"

AcceptingOneAtATime(c) ==                  \* variant: requests queued behind each other
  \A d \in DOMAIN req : req[d].pc \in {"idle", "done"}

Accepting(c) == req[c].pc \in {"idle", "done"}

Respond(c, op, args, resp) ==
  req' = [req EXCEPT ![c] = [IdleReq EXCEPT !.op = op, !.pc = "done",
                                            !.args = args, !.sent = 1, !.resp = resp]]

Await(c, op, args, pc, call) ==
  req' = [req EXCEPT ![c] = [IdleReq EXCEPT !.op = op, !.pc = pc,
                                            !.args = args, !.calls = <<call>>]]

requireCalendar(c, op, args) ==
  /\ ~CalendarReady
  /\ Respond(c, op, args, Json("initializing"))

CatchLeak(c, result, e) ==                 \* variant: error.message put in the body
  req' = [req EXCEPT ![c].pc = "done", ![c].logged = e,
                     ![c].sent = @ + 1, ![c].resp = [Json(result) EXCEPT !.detail = e]]

(* the catch block of a handler: log the error, answer the fixed string *)
Catch(c, result, e) ==
  req' = [req EXCEPT ![c].pc = "done", ![c].logged = e, ![c].sent = @ + 1, ![c].resp = Json(result)]

(* ----------------------------------------------------- check-availability *)
CheckArgs ==
  {[NoArgs EXCEPT !.date = d, !.startTime = s, !.endTime = t] :
     d \in Dates, s \in StartTimes \ {570}, t \in EndTimes}

(* if (!date || !startTime || !endTime) *)
CheckRejects(args) == Falsy(args.date) \/ Falsy(args.startTime) \/ Falsy(args.endTime)

CheckAvailability(c, args) ==
  /\ Accepting(c)
  /\ \/ requireCalendar(c, "check", args)
     \/ /\ CalendarReady
        /\ IF CheckRejects(args)
             THEN Respond(c, "check", args, Json("guidance_check"))
             ELSE Await(c, "check", args, "list",
                        Call("list", U, ParseLocal(args.date, args.startTime),
                                     ParseLocal(args.date, args.endTime)))
  /\ UNCHANGED <<initPc, calendar, authError, events, nextId, rwVars, svVars, envVars>>

CheckResultAtMostOne(items) ==             \* variant: free tested with <= 1
  IF Cardinality(items) <= 1
    THEN Json("free")
    ELSE [Json("busy") EXCEPT !.n = Cardinality(items)]

(* events.length === 0 ? free : `you have ${events.length} appointment(s)` *)
CheckResult(items) ==
  IF Cardinality(items) = 0
    THEN Json("free")
    ELSE [Json("busy") EXCEPT !.n = Cardinality(items)]

CheckListReturnPurging(c) ==               \* variant: the listed events are removed
  /\ req[c].op = "check" /\ req[c].pc = "list"
  /\ LET items == ProviderList(req[c].calls[1].a, req[c].calls[1].b) IN
       /\ req' = [req EXCEPT ![c].pc = "done",
                             ![c].items = Cardinality(items),
                             ![c].seen = events,
                             ![c].sent = @ + 1, ![c].resp = CheckResult(items)]
       /\ events' = events \ items
  /\ UNCHANGED <<initPc, calendar, authError, nextId, rwVars, svVars, envVars>>

CheckListReturn(c) ==
  /\ req[c].op = "check" /\ req[c].pc = "list"
  /\ \/ LET items == ProviderList(req[c].calls[1].a, req[c].calls[1].b) IN
          req' = [req EXCEPT ![c].pc = "done",
                             ![c].items = Cardinality(items),
                             ![c].seen = events,
                             ![c].sent = @ + 1, ![c].resp = CheckResult(items)]
     \/ \E e \in ProviderErrors : Catch(c, "error_check", e)
  /\ UNCHANGED <<initPc, calendar, authError, events, nextId, rwVars, svVars, envVars>>

(* ------------------------------------------------------------ create-event *)
CreateArgs ==
  {[NoArgs EXCEPT !.title = t, !.date = d, !.startTime = s, !.duration = m,
                  !.attendeeEmail = e] :
     t \in Titles, d \in Dates, s \in StartTimes, m \in Durations, e \in Emails}

(* const { duration = 60 } = args *)
DurationOf(args) == IF args.duration = U THEN DefaultDuration ELSE args.duration

startDateTime(args) == ParseLocal(args.date, args.startTime)
endDateTimeFixedHour(args) ==              \* variant: args.duration ignored
  AddMinutes(startDateTime(args), DefaultDuration)

endDateTime(args) == AddMinutes(startDateTime(args), DurationOf(args))

(* if (!title || !date || !startTime) *)
CreateRejects(args) == Falsy(args.title) \/ Falsy(args.date) \/ Falsy(args.startTime)

CreateEvent(c, args) ==
  /\ Accepting(c)
  /\ \/ requireCalendar(c, "create", args)
     \/ /\ CalendarReady
        /\ IF CreateRejects(args)
             THEN Respond(c, "create", args, Json("guidance_create"))
             ELSE Await(c, "create", args, "list",
                        Call("list", U, startDateTime(args), endDateTime(args)))
  /\ UNCHANGED <<initPc, calendar, authError, events, nextId, rwVars, svVars, envVars>>

(* const event = {summary, description, start, end, reminders};            *)
(* if (attendeeEmail) event.attendees = [{ email: attendeeEmail }]         *)
EventResource(args) ==
  [keys |-> {"summary", "description", "start", "end", "reminders"}
              \cup (IF Falsy(args.attendeeEmail) THEN {} ELSE {"attendees"}),
   attendees |-> IF Falsy(args.attendeeEmail) THEN <<>> ELSE <<args.attendeeEmail>>,
   timeZone |-> timeZone]

SendUpdatesAlways(args) == "all"           \* variant: notifications always requested

(* sendUpdates: attendeeEmail ? 'all' : 'none' *)
SendUpdates(args) == IF Falsy(args.attendeeEmail) THEN "none" ELSE "all"

HasConflictNever(items) == FALSE           \* variant: the conflict test dropped

(* if (conflicts.data.items && conflicts.data.items.length > 0) *)
HasConflict(items) == Cardinality(items) > 0

CreateListReturn(c) ==
  /\ req[c].op = "create" /\ req[c].pc = "list"
  /\ \/ LET items == ProviderList(req[c].calls[1].a, req[c].calls[1].b) IN
          IF HasConflict(items)
            THEN req' = [req EXCEPT ![c].pc = "done",
                                    ![c].items = Cardinality(items),
                                    ![c].sent = @ + 1, ![c].resp = Json("conflict")]
            ELSE req' = [req EXCEPT ![c].pc = "insert",
                                    ![c].items = Cardinality(items),
                                    ![c].insert =
                                       [sendUpdates |-> SendUpdates(req[c].args)]
                                         @@ EventResource(req[c].args),
                                    ![c].calls = Append(@,
                                       Call("insert", U, startDateTime(req[c].args),
                                                         endDateTime(req[c].args)))]
     \/ \E e \in ProviderErrors : Catch(c, "error_create", e)
  /\ UNCHANGED <<initPc, calendar, authError, events, nextId, rwVars, svVars, envVars>>

CreateInsertReturn(c) ==
  /\ req[c].op = "create" /\ req[c].pc = "insert"
  /\ \/ /\ nextId <= MaxEvents
        /\ events' = events \cup {[id |-> nextId, start |-> req[c].calls[2].a,
                                                  end |-> req[c].calls[2].b]}
        /\ nextId' = nextId + 1
        /\ req' = [req EXCEPT ![c].pc = "done",
                              ![c].sent = @ + 1, ![c].resp = [Json("created") EXCEPT !.eventId = nextId]]
     \/ /\ \E e \in ProviderErrors : Catch(c, "error_create", e)
        /\ UNCHANGED <<events, nextId>>
  /\ UNCHANGED <<initPc, calendar, authError, rwVars, svVars, envVars>>

(* ------------------------------------------------------------ update-event *)
UpdateArgs ==
  {[NoArgs EXCEPT !.eventId = i, !.newDate = d, !.newTime = t, !.newDuration = m] :
     i \in EventIds, d \in Dates, t \in StartTimes \ {540}, m \in Durations}

UpdateRejectsIdOnly(args) == Falsy(args.eventId)   \* variant: change fields not tested

(* if (!eventId || (!newDate && !newTime && !newDuration)) *)
UpdateRejects(args) ==
  Falsy(args.eventId)
    \/ (Falsy(args.newDate) /\ Falsy(args.newTime) /\ Falsy(args.newDuration))

UpdateEvent(c, args) ==
  /\ Accepting(c)
  /\ \/ requireCalendar(c, "update", args)
     \/ /\ CalendarReady
        /\ IF UpdateRejects(args)
             THEN Respond(c, "update", args, Json("guidance_update"))
             ELSE Await(c, "update", args, "get", Call("get", args.eventId, U, U))
  /\ UNCHANGED <<initPc, calendar, authError, events, nextId, rwVars, svVars, envVars>>

(* what calendar.events.get resolves to: the HTTP response, the event under .data *)
GetResponse(ev) == [data |-> ev, status |-> 200]

(* existingEvent.start.dateTime.split('T')[0] and [1].substring(0, 5) *)
DateOf(instant) == instant \div MinutesPerDay
TimeOf(instant) == instant % MinutesPerDay

(* the body of if (newDate || newTime): the merged start and end instants *)
MergedStart(args, existingEvent) ==
  ParseLocal(IF Falsy(args.newDate) THEN DateOf(existingEvent.start) ELSE args.newDate,
             IF Falsy(args.newTime) THEN TimeOf(existingEvent.start) ELSE args.newTime)

MergedEnd(args, existingEvent) ==
  AddMinutes(MergedStart(args, existingEvent),
             IF Falsy(args.newDuration)
               THEN existingEvent.end - existingEvent.start
               ELSE args.newDuration)

(* existingEvent.start / existingEvent.end are read on the response itself *)
ReadsUndefined(existingEvent) ==
  "start" \notin DOMAIN existingEvent \/ "end" \notin DOMAIN existingEvent

UpdateGetReturn(c) ==
  /\ req[c].op = "update" /\ req[c].pc = "get"
  /\ \/ \E ev \in events :
          /\ ev.id = req[c].args.eventId
          /\ LET existingEvent == GetResponse(ev)
                 args == req[c].args IN
               IF (~Falsy(args.newDate) \/ ~Falsy(args.newTime))
                  /\ ReadsUndefined(existingEvent)
                 THEN req' = [req EXCEPT ![c].pc = "done", ![c].got = ev,
                                         ![c].logged = "TypeError",
                                         ![c].sent = @ + 1, ![c].resp = Json("error_update")]
                 ELSE \* resource: existingEvent.data
                      req' = [req EXCEPT ![c].pc = "update", ![c].got = ev,
                                         ![c].calls = Append(@,
                                            Call("update", args.eventId,
                                                 existingEvent.data.start,
                                                 existingEvent.data.end))]
     \/ \E e \in ProviderErrors : Catch(c, "error_update", e)
  /\ UNCHANGED <<initPc, calendar, authError, events, nextId, rwVars, svVars, envVars>>

UpdateUpdateReturn(c) ==
  /\ req[c].op = "update" /\ req[c].pc = "update"
  /\ \/ /\ \E ev \in events : ev.id = req[c].calls[2].id
        /\ events' = {ev \in events : ev.id # req[c].calls[2].id}
                       \cup {[id |-> req[c].calls[2].id, start |-> req[c].calls[2].a,
                                                         end |-> req[c].calls[2].b]}
        /\ req' = [req EXCEPT ![c].pc = "done",
                              ![c].sent = @ + 1, ![c].resp = [Json("updated") EXCEPT
                                             !.eventId = req[c].calls[2].id]]
     \/ /\ \E e \in ProviderErrors : Catch(c, "error_update", e)
        /\ UNCHANGED events
  /\ UNCHANGED <<initPc, calendar, authError, nextId, rwVars, svVars, envVars>>

(* ------------------------------------------------------------ cancel-event *)
CancelArgs == {[NoArgs EXCEPT !.eventId = i] : i \in EventIds}

CancelRejectsNever(args) == FALSE          \* variant: eventId not tested

(* if (!eventId) *)
CancelRejects(args) == Falsy(args.eventId)

CancelEvent(c, args) ==
  /\ Accepting(c)
  /\ \/ requireCalendar(c, "cancel", args)
     \/ /\ CalendarReady
        /\ IF CancelRejects(args)
             THEN Respond(c, "cancel", args, Json("guidance_cancel"))
             ELSE Await(c, "cancel", args, "delete", Call("delete", args.eventId, U, U))
  /\ UNCHANGED <<initPc, calendar, authError, events, nextId, rwVars, svVars, envVars>>

CancelDeleteReturnSilent(c) ==             \* variant: the catch block only logs
  /\ req[c].op = "cancel" /\ req[c].pc = "delete"
  /\ \/ /\ \E ev \in events : ev.id = req[c].calls[1].id
        /\ events' = {ev \in events : ev.id # req[c].calls[1].id}
        /\ req' = [req EXCEPT ![c].pc = "done", ![c].sent = @ + 1, ![c].resp = Json("cancelled")]
     \/ /\ \E e \in ProviderErrors :
             req' = [req EXCEPT ![c].pc = "hung", ![c].logged = e]
        /\ UNCHANGED events
  /\ UNCHANGED <<initPc, calendar, authError, nextId, rwVars, svVars, envVars>>

(* await calendar.events.delete(...); res.json / catch *)
CancelDeleteReturn(c) ==
  /\ req[c].op = "cancel" /\ req[c].pc = "delete"
  /\ \/ /\ \E ev \in events : ev.id = req[c].calls[1].id
        /\ events' = {ev \in events : ev.id # req[c].calls[1].id}
        /\ req' = [req EXCEPT ![c].pc = "done", ![c].sent = @ + 1, ![c].resp = Json("cancelled")]
     \/ /\ \E e \in ProviderErrors : Catch(c, "error_cancel", e)
        /\ UNCHANGED events
  /\ UNCHANGED <<initPc, calendar, authError, nextId, rwVars, svVars, envVars>>

(* ------------------------------------------------------------ GET / , /health *)
(* status: calendar ? 'ready' : 'initializing'; authStatus in detail *)
Root(c) ==
  /\ Accepting(c)
  /\ Respond(c, "root", NoArgs,
             [Json(IF calendar # "null" THEN "ready" ELSE "initializing") EXCEPT
                !.detail = IF calendar # "null" THEN "connected"
                           ELSE IF authError # "none" THEN authError
                           ELSE "connecting..."])
  /\ UNCHANGED <<initPc, calendar, authError, events, nextId, rwVars, svVars, envVars>>

(* res.json(health): status 'healthy', calendar.error in detail *)
HealthBody(error) == [Json("healthy") EXCEPT !.detail = error]

Health(c) ==
  /\ Accepting(c)
  /\ IF calendar # "null"
       THEN Await(c, "health", NoArgs, "probe", Call("calendarList", U, U, U))
       ELSE Respond(c, "health", NoArgs, HealthBody(authError))
  /\ UNCHANGED <<initPc, calendar, authError, events, nextId, rwVars, svVars, envVars>>

HealthProbeReturn(c) ==
  /\ req[c].op = "health" /\ req[c].pc = "probe"
  /\ \/ req' = [req EXCEPT ![c].pc = "done", ![c].sent = @ + 1, ![c].resp = HealthBody(authError)]
     \/ \E e \in ProviderErrors :
          req' = [req EXCEPT ![c].pc = "done", ![c].sent = @ + 1, ![c].resp = HealthBody(e)]
  /\ UNCHANGED <<initPc, calendar, authError, events, nextId, rwVars, svVars, envVars>>

Next ==
  \/ InitGetClient
  \/ InitVerify
  \/ \E c \in Clients, a \in CheckArgs : CheckAvailability(c, a)
  \/ \E c \in Clients : CheckListReturn(c)
  \/ \E c \in Clients, a \in CreateArgs : CreateEvent(c, a)
  \/ \E c \in Clients : CreateListReturn(c)
  \/ \E c \in Clients : CreateInsertReturn(c)
  \/ \E c \in Clients, a \in UpdateArgs : UpdateEvent(c, a)
  \/ \E c \in Clients : UpdateGetReturn(c)
  \/ \E c \in Clients : UpdateUpdateReturn(c)
  \/ \E c \in Clients, a \in CancelArgs : CancelEvent(c, a)
  \/ \E c \in Clients : CancelDeleteReturn(c)
  \/ \E c \in Clients : Root(c)
  \/ \E c \in Clients : Health(c)
  \/ \E c \in Clients : HealthProbeReturn(c)

Spec == Init /\ [][Next]_vars

(* every provider call eventually returns or fails: the continuation of a  *)
(* pending await is eventually run by the event loop                       *)
SpecLive ==
  /\ Spec
  /\ \A c \in Clients :
       /\ WF_vars(CheckListReturn(c))
       /\ WF_vars(CreateListReturn(c))
       /\ WF_vars(CreateInsertReturn(c))
       /\ WF_vars(UpdateGetReturn(c))
       /\ WF_vars(UpdateUpdateReturn(c))
       /\ WF_vars(CancelDeleteReturn(c))

(***************************************************************************)
(* Railway variant (src/unnamed/part_000, "Railway-ready with proper       *)
(* health checks"): initializeCalendar runs from the listen callback;      *)
(* /health is a pure liveness answer, /ready reports isReady && calendar,  *)
(* the two POST operations are gated on the calendar variable.             *)
(***************************************************************************)
indexVars == <<initPc, calendar, authError, req>>

(* the listen callback has run initializeCalendar up to its first await:   *)
(* an unparseable key has already reached the catch block                  *)
InitRailway ==
  /\ InitEnv
  /\ rwInitPc \in {"getClient", "failed"}
  /\ rwCalendar = "null" /\ rwIsReady = FALSE
  /\ rwProc = "running" /\ rwTimer = U
  /\ rwReq = [c \in Clients |-> IdleReq]
  /\ events = {} /\ nextId = 1
  /\ initPc = "getClient" /\ calendar = "null" /\ authError = "none"
  /\ req = [c \in Clients |-> IdleReq]
  /\ svAuthError = "none" /\ svReq = [c \in Clients |-> IdleReq]

(* the process runs until one of the two process.exit calls *)
RwAlive == rwProc \in {"running", "closing"}

(* await auth.getClient(); calendar = google.calendar(...) *)
RwInitGetClient ==
  /\ RwAlive
  /\ rwInitPc = "getClient"
  /\ \/ /\ rwCalendar' = "handle"
        /\ rwInitPc' = "verify"
        /\ UNCHANGED rwIsReady
     \/ /\ rwIsReady' = FALSE
        /\ rwInitPc' = "failed"
        /\ UNCHANGED rwCalendar
  /\ UNCHANGED <<indexVars, envVars, svVars, rwProc, rwTimer, events, nextId, rwReq>>

(* await calendar.calendarList.list({ maxResults: 1 }); isReady = true *)
RwInitVerify ==
  /\ RwAlive
  /\ rwInitPc = "verify"
  /\ \/ /\ rwIsReady' = TRUE
        /\ rwInitPc' = "done"
     \/ /\ rwIsReady' = FALSE
        /\ rwInitPc' = "failed"
  /\ UNCHANGED <<indexVars, envVars, svVars, rwProc, rwTimer, events, nextId, rwCalendar>>
  /\ UNCHANGED rwReq

(* a request can start on a connection without one in flight: a new        *)
(* connection ("idle") only while the server listens, an established      *)
(* keep-alive connection ("done") as long as the process lives            *)
RwAccepting(c) ==
  /\ RwAlive
  /\ \/ rwReq[c].pc = "idle" /\ rwProc = "running"
     \/ rwReq[c].pc = "done"

RwRespond(c, op, args, resp) ==
  rwReq' = [rwReq EXCEPT ![c] = [IdleReq EXCEPT !.op = op, !.pc = "done",
                                                !.args = args, !.sent = 1, !.resp = resp]]

RwAwait(c, op, args, pc, call) ==
  rwReq' = [rwReq EXCEPT ![c] = [IdleReq EXCEPT !.op = op, !.pc = pc,
                                                !.args = args, !.calls = <<call>>]]

RwCatch(c, result, e) ==
  rwReq' = [rwReq EXCEPT ![c].pc = "done", ![c].logged = e, ![c].sent = @ + 1, ![c].resp = Json(result)]

(* res.status(code).json(body) *)
StatusJson(code, result) == [NoResp EXCEPT !.status = code, !.result = result]

(* res.status(200).json({ status: isReady ? 'healthy' : 'starting', ... }) *)
RwHealthBodyCoupled(ready) ==      \* variant: the status code follows isReady
  IF ready THEN StatusJson(200, "healthy") ELSE StatusJson(503, "starting")

RwHealthBody(ready) == StatusJson(200, IF ready THEN "healthy" ELSE "starting")

RwHealth(c) ==
  /\ RwAccepting(c)
  /\ RwRespond(c, "health", NoArgs, RwHealthBody(rwIsReady))
  /\ UNCHANGED <<indexVars, envVars, svVars, rwProc, rwTimer, events, nextId, rwInitPc, rwCalendar, rwIsReady>>

(* if (isReady && calendar) *)
RwReadyTestHandleOnly(ready, handle) == handle # "null"   \* variant: isReady not tested

RwReadyTest(ready, handle) == ready /\ handle # "null"

RwReady(c) ==
  /\ RwAccepting(c)
  /\ IF RwReadyTest(rwIsReady, rwCalendar)
       THEN RwRespond(c, "ready", NoArgs, Json("ready_true"))
       ELSE RwRespond(c, "ready", NoArgs, StatusJson(503, "ready_false"))
  /\ UNCHANGED <<indexVars, envVars, svVars, rwProc, rwTimer, events, nextId, rwInitPc, rwCalendar, rwIsReady>>

(* if (!calendar) return res.json({ result: 'Calendar service is initializing...' }) *)
RwGate(handle) == handle = "null"

RwCheckAvailability(c, args) ==
  /\ RwAccepting(c)
  /\ IF RwGate(rwCalendar)
       THEN RwRespond(c, "check", args, Json("rw_initializing"))
       ELSE IF CheckRejects(args)
              THEN RwRespond(c, "check", args, Json("rw_guidance_check"))
              ELSE RwAwait(c, "check", args, "list",
                           Call("list", U, ParseLocal(args.date, args.startTime),
                                           ParseLocal(args.date, args.endTime)))
  /\ UNCHANGED <<indexVars, envVars, svVars, rwProc, rwTimer, events, nextId, rwInitPc, rwCalendar, rwIsReady>>

RwCheckListReturn(c) ==
  /\ RwAlive
  /\ rwReq[c].op = "check" /\ rwReq[c].pc = "list"
  /\ \/ LET items == ProviderList(rwReq[c].calls[1].a, rwReq[c].calls[1].b) IN
          rwReq' = [rwReq EXCEPT ![c].pc = "done",
                                 ![c].items = Cardinality(items),
                                 ![c].sent = @ + 1, ![c].resp = CheckResult(items)]
     \/ \E e \in ProviderErrors : RwCatch(c, "rw_error_check", e)
  /\ UNCHANGED <<indexVars, envVars, svVars, rwProc, rwTimer, events, nextId, rwInitPc, rwCalendar, rwIsReady>>

(* the Railway create-event inserts without a conflict check *)
RwCreateEvent(c, args) ==
  /\ RwAccepting(c)
  /\ IF RwGate(rwCalendar)
       THEN RwRespond(c, "create", args, Json("rw_initializing"))
       ELSE IF CreateRejects(args)
              THEN RwRespond(c, "create", args, Json("rw_guidance_create"))
              ELSE RwAwait(c, "create", args, "insert",
                           Call("insert", U, startDateTime(args), endDateTime(args)))
  /\ UNCHANGED <<indexVars, envVars, svVars, rwProc, rwTimer, events, nextId, rwInitPc, rwCalendar, rwIsReady>>

RwCreateInsertReturn(c) ==
  /\ RwAlive
  /\ rwReq[c].op = "create" /\ rwReq[c].pc = "insert"
  /\ \/ /\ nextId <= MaxEvents
        /\ events' = events \cup {[id |-> nextId, start |-> rwReq[c].calls[1].a,
                                                  end |-> rwReq[c].calls[1].b]}
        /\ nextId' = nextId + 1
        /\ rwReq' = [rwReq EXCEPT ![c].pc = "done",
                                  ![c].sent = @ + 1, ![c].resp = [Json("created") EXCEPT !.eventId = nextId]]
     \/ /\ \E e \in ProviderErrors : RwCatch(c, "rw_error_create", e)
        /\ UNCHANGED <<events, nextId>>
  /\ UNCHANGED <<indexVars, envVars, svVars, rwProc, rwTimer, rwInitPc, rwCalendar, rwIsReady>>

(* complete requests *)
ConcCheckArgs ==
  {[NoArgs EXCEPT !.date = 1, !.startTime = 540, !.endTime = t] : t \in EndTimes \ {U}}

ConcCreateArgs ==
  {[NoArgs EXCEPT !.title = 1, !.date = 1, !.startTime = s] : s \in StartTimes \ {U}}

(* --------------------------------------------------- graceful shutdown *)
GraceSeconds == 10                        \* setTimeout(..., 10000)

RwInFlight(c) == rwReq[c].pc \notin {"idle", "done"}

RwSigtermUnarmed ==                        \* variant: no force-exit timer
  /\ rwProc = "running"
  /\ rwProc' = "closing"
  /\ UNCHANGED <<indexVars, envVars, svVars, events, nextId,
                 rwInitPc, rwCalendar, rwIsReady, rwReq, rwTimer>>

(* process.on('SIGTERM'): server.close(cb); setTimeout(forced exit, 10000). *)
(* A repeated signal registers a second callback and a later timer, which  *)
(* change nothing the first ones do.                                       *)
RwSigterm ==
  /\ rwProc = "running"
  /\ rwProc' = "closing"
  /\ rwTimer' = 0
  /\ UNCHANGED <<indexVars, envVars, svVars, events, nextId,
                 rwInitPc, rwCalendar, rwIsReady, rwReq>>

(* the close callback: every connection has ended, process.exit(0); with   *)
(* no request in flight the remaining connections may end at any time      *)
RwServerClosed ==
  /\ rwProc = "closing"
  /\ \A c \in Clients : ~RwInFlight(c)
  /\ rwProc' = "exit0"
  /\ UNCHANGED <<indexVars, envVars, svVars, events, nextId,
                 rwInitPc, rwCalendar, rwIsReady, rwReq, rwTimer>>

(* a second passes on the armed timer; at 10 s its callback runs           *)
(* process.exit(1)                                                         *)
RwTick ==
  /\ rwProc = "closing"
  /\ rwTimer # U /\ rwTimer < GraceSeconds
  /\ rwTimer' = rwTimer + 1
  /\ rwProc' = IF rwTimer + 1 = GraceSeconds THEN "exit1" ELSE rwProc
  /\ UNCHANGED <<indexVars, envVars, svVars, events, nextId,
                 rwInitPc, rwCalendar, rwIsReady, rwReq>>

NextRailway ==
  \/ RwInitGetClient
  \/ RwInitVerify
  \/ \E c \in Clients : RwHealth(c)
  \/ \E c \in Clients : RwReady(c)
  \/ \E c \in Clients, a \in CheckArgs : RwCheckAvailability(c, a)
  \/ \E c \in Clients : RwCheckListReturn(c)
  \/ \E c \in Clients, a \in CreateArgs : RwCreateEvent(c, a)
  \/ \E c \in Clients : RwCreateInsertReturn(c)

SpecRailway == InitRailway /\ [][NextRailway]_vars

(* the Railway server with the termination signal, serving complete        *)
(* requests                                                                *)
NextShutdown ==
  \/ RwInitGetClient
  \/ RwInitVerify
  \/ \E c \in Clients : RwHealth(c)
  \/ \E c \in Clients, a \in ConcCheckArgs : RwCheckAvailability(c, a)
  \/ \E c \in Clients : RwCheckListReturn(c)
  \/ \E c \in Clients, a \in ConcCreateArgs : RwCreateEvent(c, a)
  \/ \E c \in Clients : RwCreateInsertReturn(c)
  \/ RwSigterm
  \/ RwServerClosed
  \/ RwTick

(* timers are served by the event loop, which no handler blocks: an armed  *)
(* timer keeps running                                                     *)
SpecShutdown == InitRailway /\ [][NextShutdown]_vars /\ WF_vars(RwTick)

(***************************************************************************)
(* Both servers' initialisation and their GET /health handlers side by     *)
(* side, without the POST operations (which write none of the variables    *)
(* a health answer reads).                                                 *)
(***************************************************************************)
InitHealth ==
  /\ InitEnv
  /\ \/ /\ initPc = "getClient" /\ authError = "none"
     \/ /\ initPc = "failed"
        /\ authError \in {"GOOGLE_SERVICE_ACCOUNT_KEY environment variable not set",
                          "Unexpected token in JSON"}
  /\ calendar = "null"
  /\ req = [c \in Clients |-> IdleReq]
  /\ rwInitPc \in {"getClient", "failed"}
  /\ rwCalendar = "null" /\ rwIsReady = FALSE
  /\ rwProc = "running" /\ rwTimer = U
  /\ rwReq = [c \in Clients |-> IdleReq]
  /\ events = {} /\ nextId = 1
  /\ svAuthError = "none" /\ svReq = [c \in Clients |-> IdleReq]

NextHealth ==
  \/ InitGetClient
  \/ InitVerify
  \/ \E c \in Clients : Health(c)
  \/ \E c \in Clients : HealthProbeReturn(c)
  \/ \E c \in Clients : Root(c)
  \/ RwInitGetClient
  \/ RwInitVerify
  \/ \E c \in Clients : RwHealth(c)
  \/ \E c \in Clients : RwReady(c)

SpecHealth == InitHealth /\ [][NextHealth]_vars

(***************************************************************************)
(* src/server.js: the auth object is built synchronously at module load;   *)
(* every handler tests authError first, then obtains a client per request. *)
(***************************************************************************)
InitServer ==
  /\ InitEnv
  /\ svAuthError \in {"none", "GOOGLE_SERVICE_ACCOUNT_KEY environment variable is missing",
                      "Unexpected token in JSON"}
  /\ svReq = [c \in Clients |-> IdleReq]
  /\ events = {} /\ nextId = 1
  /\ initPc = "getClient" /\ calendar = "null" /\ authError = "none"
  /\ req = [c \in Clients |-> IdleReq]
  /\ rwInitPc = "getClient" /\ rwCalendar = "null" /\ rwIsReady = FALSE
  /\ rwProc = "running" /\ rwTimer = U
  /\ rwReq = [c \in Clients |-> IdleReq]

SvAccepting(c) == svReq[c].pc \in {"idle", "done"}

SvRespond(c, op, args, resp) ==
  svReq' = [svReq EXCEPT ![c] = [IdleReq EXCEPT !.op = op, !.pc = "done",
                                                !.args = args, !.sent = 1, !.resp = resp]]

SvThrow(c, op, args, result, e) ==
  svReq' = [svReq EXCEPT ![c] = [IdleReq EXCEPT !.op = op, !.pc = "done", !.args = args,
                                                !.logged = e, !.sent = 1, !.resp = Json(result)]]

SvCatch(c, result, e) ==
  svReq' = [svReq EXCEPT ![c].pc = "done", ![c].logged = e, ![c].sent = @ + 1, ![c].resp = Json(result)]

(* return res.status(503).json({ result: "Service is not properly configured..." }) *)
SvNotConfigured == StatusJson(503, "sv_not_configured")

(* new Date(`${date}T${time}:00`).toISOString() throws RangeError on an invalid date *)
InvalidDate(date, time) == date = U \/ time = U

(* present: whether the body carries args; const { date, ... } = undefined throws *)
SvCheckAvailability(c, present, args) ==
  /\ SvAccepting(c)
  /\ IF svAuthError # "none"
       THEN SvRespond(c, "check", args, SvNotConfigured)
       ELSE IF ~present
              THEN args = NoArgs /\ SvThrow(c, "check", args, "sv_error_check", "TypeError")
              ELSE svReq' = [svReq EXCEPT ![c] = [IdleReq EXCEPT !.op = "check",
                                                    !.pc = "getClient", !.args = args]]
  /\ UNCHANGED <<indexVars, envVars, rwVars, events, nextId, svAuthError>>

SvCheckGetClientReturn(c) ==
  /\ svReq[c].op = "check" /\ svReq[c].pc = "getClient"
  /\ \/ LET args == svReq[c].args IN
          IF InvalidDate(args.date, args.startTime) \/ InvalidDate(args.date, args.endTime)
            THEN SvCatch(c, "sv_error_check", "RangeError")
            ELSE svReq' = [svReq EXCEPT ![c].pc = "list",
                             ![c].calls = <<Call("list", U,
                                                 ParseLocal(args.date, args.startTime),
                                                 ParseLocal(args.date, args.endTime))>>]
     \/ \E e \in ProviderErrors : SvCatch(c, "sv_error_check", e)
  /\ UNCHANGED <<indexVars, envVars, rwVars, events, nextId, svAuthError>>

(* events.length === 0 ? 'The calendar is free...' : `There are ${events.length}...` *)
SvCheckResult(items) ==
  IF Cardinality(items) = 0
    THEN Json("free")
    ELSE [Json("busy") EXCEPT !.n = Cardinality(items)]

SvCheckListReturn(c) ==
  /\ svReq[c].op = "check" /\ svReq[c].pc = "list"
  /\ \/ LET items == ProviderList(svReq[c].calls[1].a, svReq[c].calls[1].b) IN
          svReq' = [svReq EXCEPT ![c].pc = "done",
                                 ![c].items = Cardinality(items),
                                 ![c].sent = @ + 1, ![c].resp = SvCheckResult(items)]
     \/ \E e \in ProviderErrors : SvCatch(c, "sv_error_check", e)
  /\ UNCHANGED <<indexVars, envVars, rwVars, events, nextId, svAuthError>>

SvCreateEvent(c, present, args) ==
  /\ SvAccepting(c)
  /\ IF svAuthError # "none"
       THEN SvRespond(c, "create", args, SvNotConfigured)
       ELSE IF ~present
              THEN args = NoArgs /\ SvThrow(c, "create", args, "sv_error_create", "TypeError")
              ELSE svReq' = [svReq EXCEPT ![c] = [IdleReq EXCEPT !.op = "create",
                                                    !.pc = "getClient", !.args = args]]
  /\ UNCHANGED <<indexVars, envVars, rwVars, events, nextId, svAuthError>>

SvCreateGetClientReturn(c) ==
  /\ svReq[c].op = "create" /\ svReq[c].pc = "getClient"
  /\ \/ LET args == svReq[c].args IN
          IF InvalidDate(args.date, args.startTime)
            THEN SvCatch(c, "sv_error_create", "RangeError")
            ELSE svReq' = [svReq EXCEPT ![c].pc = "insert",
                             ![c].calls = <<Call("insert", U, startDateTime(args),
                                                 endDateTime(args))>>]
     \/ \E e \in ProviderErrors : SvCatch(c, "sv_error_create", e)
  /\ UNCHANGED <<indexVars, envVars, rwVars, events, nextId, svAuthError>>

SvCreateInsertReturn(c) ==
  /\ svReq[c].op = "create" /\ svReq[c].pc = "insert"
  /\ \/ /\ nextId <= MaxEvents
        /\ events' = events \cup {[id |-> nextId, start |-> svReq[c].calls[1].a,
                                                  end |-> svReq[c].calls[1].b]}
        /\ nextId' = nextId + 1
        /\ svReq' = [svReq EXCEPT ![c].pc = "done",
                                  ![c].sent = @ + 1, ![c].resp = [Json("created") EXCEPT !.eventId = nextId]]
     \/ /\ \E e \in ProviderErrors : SvCatch(c, "sv_error_create", e)
        /\ UNCHANGED <<events, nextId>>
  /\ UNCHANGED <<indexVars, envVars, rwVars, svAuthError>>

NextServer ==
  \/ \E c \in Clients, p \in BOOLEAN, a \in CheckArgs : SvCheckAvailability(c, p, a)
  \/ \E c \in Clients : SvCheckGetClientReturn(c)
  \/ \E c \in Clients : SvCheckListReturn(c)
  \/ \E c \in Clients, p \in BOOLEAN, a \in CreateArgs : SvCreateEvent(c, p, a)
  \/ \E c \in Clients : SvCreateGetClientReturn(c)
  \/ \E c \in Clients : SvCreateInsertReturn(c)

SpecServer == InitServer /\ [][NextServer]_vars

(***************************************************************************)
(* src/index.js with two connections: handlers of different requests       *)
(* interleave at their awaits.  The requests are the complete ones: two    *)
(* availability windows, two overlapping appointments, cancellations.      *)
(***************************************************************************)
ConcClients == {"c1", "c2"}

ConcCancelArgs == {[NoArgs EXCEPT !.eventId = i] : i \in 1..MaxEvents}

InitConc ==
  /\ InitEnv
  /\ \/ /\ initPc = "getClient" /\ authError = "none"
     \/ /\ initPc = "failed"
        /\ authError \in {"GOOGLE_SERVICE_ACCOUNT_KEY environment variable not set",
                          "Unexpected token in JSON"}
  /\ calendar = "null"
  /\ events = {}
  /\ nextId = 1
  /\ req = [c \in ConcClients |-> IdleReq]
  /\ rwInitPc = "getClient" /\ rwCalendar = "null" /\ rwIsReady = FALSE
  /\ rwProc = "running" /\ rwTimer = U
  /\ rwReq = [c \in Clients |-> IdleReq]
  /\ svAuthError = "none" /\ svReq = [c \in Clients |-> IdleReq]

NextConc ==
  \/ InitGetClient
  \/ InitVerify
  \/ \E c \in ConcClients, a \in ConcCheckArgs : CheckAvailability(c, a)
  \/ \E c \in ConcClients : CheckListReturn(c)
  \/ \E c \in ConcClients, a \in ConcCreateArgs : CreateEvent(c, a)
  \/ \E c \in ConcClients : CreateListReturn(c)
  \/ \E c \in ConcClients : CreateInsertReturn(c)
  \/ \E c \in ConcClients, a \in ConcCancelArgs : CancelEvent(c, a)
  \/ \E c \in ConcClients : CancelDeleteReturn(c)

SpecConc == InitConc /\ [][NextConc]_vars

(***************************************************************************)
(* index.js in any deployment environment: the zone of the server process  *)
(* and the configured TIMEZONE are chosen independently at start.          *)
(***************************************************************************)
InitZone ==
  /\ serverZone \in Zones /\ timeZone \in Zones
  /\ initPc = "getClient" /\ authError = "none"
  /\ calendar = "null"
  /\ events = {}
  /\ nextId = 1
  /\ req = [c \in Clients |-> IdleReq]
  /\ rwInitPc = "getClient" /\ rwCalendar = "null" /\ rwIsReady = FALSE
  /\ rwProc = "running" /\ rwTimer = U
  /\ rwReq = [c \in Clients |-> IdleReq]
  /\ svAuthError = "none" /\ svReq = [c \in Clients |-> IdleReq]

NextZone ==
  \/ InitGetClient
  \/ InitVerify
  \/ \E c \in Clients, a \in CheckArgs : CheckAvailability(c, a)
  \/ \E c \in Clients : CheckListReturn(c)
  \/ \E c \in Clients, a \in CreateArgs : CreateEvent(c, a)
  \/ \E c \in Clients : CreateListReturn(c)
  \/ \E c \in Clients : CreateInsertReturn(c)

SpecZone == InitZone /\ [][NextZone]_vars

(***************************************************************************)
(* Properties                                                              *)
(***************************************************************************)
PostOps == {"check", "create", "update", "cancel"}

Kinds(c) == {req[c].calls[i].kind : i \in 1..Len(req[c].calls)}

(* the fixed texts of src/index.js, by operation *)
GuidanceOf(op) ==
  CASE op = "check" -> "guidance_check"
    [] op = "create" -> "guidance_create"
    [] op = "update" -> "guidance_update"
    [] op = "cancel" -> "guidance_cancel"

GenericOf(op) ==
  CASE op = "check" -> "error_check"
    [] op = "create" -> "error_create"
    [] op = "update" -> "error_update"
    [] op = "cancel" -> "error_cancel"

Undef(v) == v = U

(* a required field of the operation is missing from args *)
MissingRequired(r) ==
  \/ r.op = "check" /\ (Undef(r.args.date) \/ Undef(r.args.startTime) \/ Undef(r.args.endTime))
  \/ r.op = "create" /\ (Undef(r.args.title) \/ Undef(r.args.date) \/ Undef(r.args.startTime))
  \/ r.op = "update" /\ (Undef(r.args.eventId)
                           \/ (Undef(r.args.newDate) /\ Undef(r.args.newTime)
                                 /\ Undef(r.args.newDuration)))

(* C1: in POST /create-event, a non-empty conflict list for                *)
(* [start, start+duration) means the conflict message and no insert; an    *)
(* insert is only issued after the request's own list call returned no     *)
(* events.                                                                 *)
C1_ConflictRefusesInsert ==
  \A c \in Clients :
    req[c].op = "create" =>
      /\ (req[c].items # U /\ req[c].items > 0) =>
            /\ req[c].pc = "done"
            /\ req[c].resp.result = "conflict"
            /\ "insert" \notin Kinds(c)
      /\ "insert" \in Kinds(c) =>
            /\ Len(req[c].calls) = 2
            /\ req[c].calls[1] =
                 [kind |-> "list", id |-> U,
                  a |-> req[c].args.date * 1440 + req[c].args.startTime,
                  b |-> req[c].args.date * 1440 + req[c].args.startTime
                          + (IF req[c].args.duration = U THEN 60 ELSE req[c].args.duration)]
            /\ req[c].items = 0

C1_Witness ==
  \E c \in Clients :
    /\ req[c].op = "create" /\ req[c].pc = "done"
    /\ req[c].items > 0 /\ req[c].resp.result = "conflict"
    /\ events # {}

C3_FreeIffEmpty ==
  \A c \in Clients :
    (req[c].op = "check" /\ req[c].pc = "done" /\ req[c].items # U) =>
      LET window == {e \in events :
                       /\ e.end > req[c].args.date * 1440 + req[c].args.startTime
                       /\ e.start < req[c].args.date * 1440 + req[c].args.endTime} IN
        /\ req[c].items = Cardinality(window)
        /\ (req[c].resp.result = "free") <=> (window = {})
        /\ window # {} => /\ req[c].resp.result = "busy"
                          /\ req[c].resp.n = Cardinality(window)
        /\ req[c].resp.status = 200

C3_Witness ==
  \E c \in Clients :
    /\ req[c].op = "check" /\ req[c].pc = "done"
    /\ req[c].resp.result = "busy" /\ req[c].resp.n = 2

(* C4: an update with only newTime of an existing event issues an update   *)
(* call whose event keeps the stored date and the stored duration, with    *)
(* the time of day changed.                                                *)
C4_NewTimeKeepsDateAndDuration ==
  \A c \in Clients :
    (/\ req[c].op = "update" /\ req[c].pc = "done"
     /\ req[c].args.newTime # U /\ req[c].args.newDate = U /\ req[c].args.newDuration = U
     /\ req[c].got # NoEvent) =>
      \E i \in 1..Len(req[c].calls) :
        /\ req[c].calls[i].kind = "update"
        /\ req[c].calls[i].id = req[c].args.eventId
        /\ req[c].calls[i].a = (req[c].got.start \div 1440) * 1440 + req[c].args.newTime
        /\ req[c].calls[i].b - req[c].calls[i].a = req[c].got.end - req[c].got.start

(* C5: a failed provider call in any of the four POST operations is caught *)
(* and answered with HTTP 200 and the operation's fixed generic result,    *)
(* whatever the error was; the error text goes to the log only.            *)
C5_ProviderFailureGeneric ==
  \A c \in Clients :
    (req[c].op \in PostOps /\ req[c].logged \in ProviderErrors) =>
      /\ req[c].pc = "done"
      /\ req[c].resp.status = 200
      /\ req[c].resp.result = GenericOf(req[c].op)
      /\ req[c].resp.detail = "none"
      /\ req[c].resp.eventId = U

C5_Witness ==
  \E c \in Clients :
    /\ req[c].op = "create" /\ req[c].pc = "done"
    /\ Len(req[c].calls) = 2
    /\ req[c].logged = "E503"
    /\ req[c].resp.result = "error_create"

(* C6: while the calendar is not ready (initialisation has not completed   *)
(* with a verified handle), every POST operation returns the 'still        *)
(* initializing' result and issues no provider call.                       *)
C6_NotReadyNoProviderCall ==
  initPc # "done" =>
    \A c \in Clients :
      req[c].op \in PostOps =>
        /\ req[c].pc = "done"
        /\ req[c].resp.result = "initializing"
        /\ req[c].calls = <<>>

C7_CancelArrival ==
  \A c \in Clients :
    (req'[c] # req[c] /\ req'[c].op = "cancel" /\ req[c].pc \in {"idle", "done"}
       /\ calendar # "null") =>
      IF req'[c].args.eventId = U
        THEN /\ req'[c].pc = "done"
             /\ req'[c].calls = <<>>
             /\ req'[c].resp.result = "guidance_cancel"
        ELSE /\ req'[c].pc = "delete"
             /\ req'[c].calls = <<[kind |-> "delete", id |-> req'[c].args.eventId,
                                   a |-> U, b |-> U]>>

C7_CancelState ==
  \A c \in Clients :
    req[c].op = "cancel" =>
      /\ Len(req[c].calls) <= 1
      /\ req[c].calls # <<>> =>
           /\ req[c].args.eventId # U
           /\ req[c].calls[1].kind = "delete"
           /\ req[c].calls[1].id = req[c].args.eventId
      /\ (req[c].pc = "done" /\ req[c].calls # <<>> /\ req[c].logged = "none") =>
           /\ req[c].resp.result = "cancelled"
           /\ req[c].resp.status = 200
           /\ \A e \in events : e.id # req[c].args.eventId

(* C7: POST /cancel-event with the calendar handle set: with an eventId,   *)
(* exactly one delete call for that eventId is issued and its success      *)
(* gives the cancellation result; with no eventId, the guidance result     *)
(* and no provider call.                                                   *)
C7_CancelDeletesOnce == [][C7_CancelArrival]_vars /\ []C7_CancelState

C7_Witness ==
  \E c \in Clients :
    /\ req[c].op = "cancel" /\ req[c].pc = "done"
    /\ req[c].resp.result = "cancelled"
    /\ nextId > 1

(* C8: POST /create-event with title, date and startTime and an empty      *)
(* conflict list issues exactly one insert, from date+startTime to         *)
(* start + duration minutes (60 when duration is omitted); the response    *)
(* carries the provider's eventId, and only a request whose insert         *)
(* succeeded answers with an eventId.                                      *)
C8_InsertWindowAndEventId ==
  \A c \in Clients :
    req[c].op = "create" =>
      LET start == req[c].args.date * 1440 + req[c].args.startTime
          minutes == IF req[c].args.duration = U THEN 60 ELSE req[c].args.duration IN
        /\ (req[c].items = 0 /\ req[c].pc # "list") =>
              /\ Len(req[c].calls) = 2
              /\ req[c].calls[2] = [kind |-> "insert", id |-> U,
                                    a |-> start, b |-> start + minutes]
              /\ (req[c].pc = "done" /\ req[c].logged = "none") =>
                    /\ req[c].resp.result = "created"
                    /\ [id |-> req[c].resp.eventId, start |-> start,
                        end |-> start + minutes] \in events
        /\ req[c].resp.eventId # U =>
              /\ req[c].pc = "done" /\ req[c].logged = "none"
              /\ req[c].items = 0
              /\ \E e \in events : e.id = req[c].resp.eventId

C8_Witness ==
  \E c \in Clients :
    /\ req[c].op = "create" /\ req[c].pc = "done"
    /\ req[c].args.duration = U
    /\ req[c].resp.eventId = 2
    /\ [id |-> 2, start |-> 1440 + 570, end |-> 1440 + 630] \in events

(* C9: GET /health of src/index.js and of the Railway variant answers HTTP *)
(* 200 in every state: before initialisation finishes, after it failed,    *)
(* and when the handler's own calendarList probe fails.                    *)
C9_HealthAlways200 ==
  \A c \in Clients :
    /\ (req[c].op = "health" /\ req[c].pc = "done") =>
          /\ req[c].resp.status = 200
          /\ req[c].resp.result = "healthy"
    /\ (req[c].op = "health" /\ req[c].pc = "probe") => calendar # "null"
    /\ (rwReq[c].op = "health") =>
          /\ rwReq[c].pc = "done"
          /\ rwReq[c].resp.status = 200
          /\ rwReq[c].calls = <<>>

C9_Witness ==
  \E c \in Clients :
    /\ req[c].op = "health" /\ req[c].pc = "done"
    /\ req[c].calls # <<>> /\ req[c].resp.detail \in ProviderErrors
    /\ req[c].resp.status = 200
    /\ rwReq[c].op = "health" /\ rwReq[c].pc = "done"
    /\ rwInitPc = "failed" /\ rwReq[c].resp.result = "starting"
    /\ rwReq[c].resp.status = 200

(* the two halves of the /ready contract: the answer of a /ready request,  *)
(* and the gate of the POST operations while /ready would answer 503       *)
C10_ReadyAnswer ==
  \A c \in Clients :
    (rwReq'[c] # rwReq[c] /\ rwReq'[c].op = "ready") =>
      /\ rwReq'[c].pc = "done"
      /\ IF rwInitPc = "done"
           THEN rwReq'[c].resp.status = 200 /\ rwReq'[c].resp.result = "ready_true"
           ELSE rwReq'[c].resp.status = 503 /\ rwReq'[c].resp.result = "ready_false"

C10_NotReadyGated ==
  ~(rwIsReady /\ rwCalendar # "null") =>
    \A c \in Clients :
      rwReq[c].op \in {"check", "create"} =>
        /\ rwReq[c].pc = "done"
        /\ rwReq[c].resp.result = "rw_initializing"
        /\ rwReq[c].calls = <<>>

(* C10: in the Railway variant GET /ready answers 200 ready:true exactly   *)
(* when initializeCalendar has completed with its verification call, 503   *)
(* ready:false otherwise; and whenever /ready would answer not ready, POST *)
(* /check-availability and /create-event answer 'initializing' without a   *)
(* provider call.                                                          *)
C10_ReadyGatesOperations == [][C10_ReadyAnswer]_vars /\ []C10_NotReadyGated

(* C11: every response of a POST operation endpoint is HTTP 200 with a     *)
(* result string, in every outcome; after an initialisation failure the    *)
(* operation endpoints (here those of src/server.js) answer with a result  *)
(* message and never with an HTTP 5xx status.                              *)
C11_PostAlways200 ==
  \A c \in Clients :
    (svReq[c].op \in {"check", "create"} /\ svReq[c].pc = "done") =>
      /\ svReq[c].resp.status = 200
      /\ svReq[c].resp.result # ""

Overlap(e, f) == e.start < f.end /\ f.start < e.end

(* C12: two concurrent POST /create-event requests for overlapping windows *)
(* are not serialized: a request is accepted and its list and insert       *)
(* replies are consumed whatever the other connection is doing, and the    *)
(* conflict list counts only the events the provider already holds, not    *)
(* the insert another request is about to issue; the double-booked slot    *)
(* is the witness.                                                         *)
C12_CreatesNotSerialized ==
  /\ [](\A c \in ConcClients :
          /\ (calendar # "null" /\ req[c].pc \in {"idle", "done"}) =>
                \A a \in ConcCreateArgs : ENABLED CreateEvent(c, a)
          /\ (req[c].op = "create" /\ req[c].pc = "list") => ENABLED CreateListReturn(c)
          /\ (req[c].op = "create" /\ req[c].pc = "insert") => ENABLED CreateInsertReturn(c))
  /\ [][\A c \in ConcClients :
          (req[c].op = "create" /\ req[c].pc = "list" /\ req'[c].items # U) =>
            req'[c].items =
              Cardinality({e \in events : /\ e.end > req[c].calls[1].a
                                          /\ e.start < req[c].calls[1].b})]_vars

C12_Witness ==
  /\ \A c \in ConcClients :
       /\ req[c].op = "create" /\ req[c].pc = "done"
       /\ req[c].items = 0 /\ req[c].resp.result = "created"
  /\ req["c1"].args.startTime # req["c2"].args.startTime
  /\ \E e \in events : \E f \in events : e.id # f.id /\ Overlap(e, f)

(* C13: the shared calendar handle of src/index.js is constructed at most  *)
(* once and never changed afterwards: once calendar is non-null no handler *)
(* and no later initialisation step changes it, under any interleaving of  *)
(* concurrent requests.                                                    *)
C13_HandleSetOnce ==
  [][/\ calendar # "null" => calendar' = calendar
     /\ calendar' # calendar => (initPc = "getClient" /\ initPc' = "verify")
     /\ initPc # "getClient" => initPc' # "getClient"]_vars

C13_Witness ==
  /\ calendar = "handle" /\ initPc = "failed"
  /\ req["c1"].op = "create" /\ req["c1"].pc = "insert"
  /\ req["c2"].op = "check" /\ req["c2"].pc = "list"

(* C15: POST /check-availability never changes the provider's events, and  *)
(* two checks with the same date, startTime and endTime that listed the    *)
(* same provider events (no create, update or cancel took effect between   *)
(* them) report the same free/busy outcome.                                *)
C15_CheckIdempotent ==
  /\ [][\A c \in ConcClients :
          (req'[c] # req[c] /\ req'[c].op = "check") =>
            (events' = events /\ nextId' = nextId)]_vars
  /\ [](\A c \in ConcClients : \A d \in ConcClients :
          (/\ req[c].op = "check" /\ req[c].pc = "done" /\ req[c].items # U
           /\ req[d].op = "check" /\ req[d].pc = "done" /\ req[d].items # U
           /\ req[c].args = req[d].args
           /\ req[c].seen = req[d].seen) =>
            /\ req[c].resp.result = req[d].resp.result
            /\ req[c].resp.n = req[d].resp.n
            /\ req[c].resp.result \in {"free", "busy"})

C15_Witness ==
  /\ \A c \in ConcClients :
       /\ req[c].op = "check" /\ req[c].pc = "done"
       /\ req[c].resp.result = "busy" /\ req[c].resp.n = 2
  /\ req["c1"].args = req["c2"].args
  /\ req["c1"].seen = events /\ req["c2"].seen = events

(* C16: a failed initialization of index.js never ends the process: the    *)
(* function stays within its own positions and ends "failed" (resolved     *)
(* false) with authError recorded and kept, and the server goes on         *)
(* answering GET / and GET /health with HTTP 200.                          *)
C16_InitFailureSurvives ==
  /\ [](/\ initPc \in {"getClient", "verify", "done", "failed"}
        /\ initPc = "failed" =>
             /\ authError # "none"
             /\ \A c \in Clients :
                  req[c].pc \in {"idle", "done"} =>
                    (ENABLED Root(c) /\ ENABLED Health(c)))
  /\ [][initPc = "failed" =>
          /\ initPc' = "failed" /\ authError' = authError
          /\ \A c \in Clients :
               /\ (req'[c] # req[c] /\ req'[c].op = "root") =>
                    /\ req'[c].pc = "done"
                    /\ req'[c].resp.status = 200
                    /\ req'[c].resp.result =
                         IF calendar = "null" THEN "initializing" ELSE "ready"
                    /\ calendar = "null" => req'[c].resp.detail = authError
               /\ (req'[c] # req[c] /\ req'[c].op = "health"
                                    /\ req'[c].pc = "done") =>
                    /\ req'[c].resp.status = 200
                    /\ req'[c].resp.result = "healthy"]_vars

C16_Witness ==
  /\ initPc = "failed" /\ authError = "E503" /\ calendar = "null"
  /\ req["c1"].op = "root" /\ req["c1"].pc = "done"
  /\ req["c1"].resp.status = 200 /\ req["c1"].resp.detail = "E503"

(* C17: an update of an existing event with only newDuration issues an     *)
(* update call whose event keeps the stored start and ends newDuration     *)
(* minutes after it.                                                       *)
C17_NewDurationMovesEnd ==
  \A c \in Clients :
    (/\ req[c].op = "update" /\ req[c].pc \in {"update", "done"}
     /\ req[c].args.newDuration # U /\ req[c].args.newDate = U /\ req[c].args.newTime = U
     /\ req[c].got # NoEvent) =>
      \E i \in 1..Len(req[c].calls) :
        /\ req[c].calls[i].kind = "update"
        /\ req[c].calls[i].id = req[c].args.eventId
        /\ req[c].calls[i].a = req[c].got.start
        /\ req[c].calls[i].b = req[c].got.start + req[c].args.newDuration

(* C20: with create-event requests handled one at a time, positive         *)
(* durations and no other writer, no two events inserted by the service    *)
(* have overlapping [start, end) intervals, whatever creates, rejected     *)
(* updates and cancels came before.                                        *)
C20_SequentialCreatesDisjoint ==
  \A e \in events :
    /\ e.end > e.start
    /\ \A f \in events :
         e.id # f.id => (e.end <= f.start \/ f.end <= e.start)

C20_Witness ==
  /\ \E e \in events : \E f \in events : e.id # f.id /\ e.end = f.start
  /\ req["c1"].op = "create" /\ req["c1"].pc = "done"
  /\ req["c1"].resp.result = "conflict"

(* C19: the insert call of create-event requests update notifications      *)
(* ('all') exactly when attendeeEmail is provided (a non-empty string) and *)
(* 'none' otherwise, and the inserted event carries an attendees list,     *)
(* holding exactly that one email, exactly when attendeeEmail is provided. *)
C19_NotificationsIffAttendee ==
  \A c \in Clients :
    (/\ req[c].op = "create"
     /\ Len(req[c].calls) = 2 /\ req[c].calls[2].kind = "insert") =>
      IF req[c].args.attendeeEmail \in {U, 0}
        THEN /\ req[c].insert.sendUpdates = "none"
             /\ "attendees" \notin req[c].insert.keys
             /\ req[c].insert.attendees = <<>>
        ELSE /\ req[c].insert.sendUpdates = "all"
             /\ "attendees" \in req[c].insert.keys
             /\ req[c].insert.attendees = <<req[c].args.attendeeEmail>>

C19_Witness ==
  /\ req["c1"].op = "create" /\ req["c1"].pc = "done"
  /\ req["c1"].resp.result = "created"
  /\ req["c1"].args.attendeeEmail = 1
  /\ req["c1"].insert.sendUpdates = "all"
  /\ \E e \in events : e.id = req["c1"].resp.eventId

(* C18: the availability window and the created event start at the wall-   *)
(* clock date and time read in the configured TIMEZONE, whatever zone the  *)
(* server process runs in.                                                 *)
C18_WindowInConfiguredZone ==
  \A c \in Clients :
    /\ (req[c].op \in {"check", "create"} /\ Len(req[c].calls) >= 1) =>
         req[c].calls[1].a =
           req[c].args.date * 1440 + req[c].args.startTime - timeZone
    /\ (req[c].op = "create" /\ Len(req[c].calls) = 2) =>
         req[c].calls[2].a =
           req[c].args.date * 1440 + req[c].args.startTime - timeZone

(* C14: after SIGTERM the Railway server accepts no new connection and the *)
(* process eventually exits: with code 0 only once no request is in flight *)
(* and the server has closed, with code 1 exactly when the 10-second timer *)
(* runs out first; it is never alive with the grace period used up, and    *)
(* nothing runs after the exit.                                            *)
C14_BoundedShutdown ==
  /\ [](/\ rwProc \in {"running", "closing", "exit0", "exit1"}
        /\ rwProc = "running" => rwTimer = -1
        /\ rwProc = "closing" => (rwTimer >= 0 /\ rwTimer < 10)
        /\ rwProc = "exit0" => (rwTimer >= 0 /\ rwTimer < 10)
        /\ rwProc = "exit1" => rwTimer = 10)
  /\ [][/\ (rwProc # "exit0" /\ rwProc' = "exit0") =>
             /\ rwProc = "closing"
             /\ \A c \in Clients : rwReq[c].pc \in {"idle", "done"}
        /\ (rwProc # "exit1" /\ rwProc' = "exit1") =>
             (rwProc = "closing" /\ rwTimer = 9)
        /\ rwProc # "running" =>
             \A c \in Clients : rwReq[c].pc = "idle" => rwReq'[c].pc = "idle"
        /\ rwProc \in {"exit0", "exit1"} => vars' = vars]_vars
  /\ (rwProc = "closing") ~> (rwProc \in {"exit0", "exit1"})

C14_Witness ==
  /\ rwProc = "exit1" /\ rwTimer = 10
  /\ rwReq["c1"].op = "check" /\ rwReq["c1"].pc = "list"
(* C21: every request to one of the four POST operations of index.js ends  *)
(* with exactly one response (none while a provider call is pending, one   *)
(* once the handler is finished, never a second), on every path, given     *)
(* that each provider call returns or fails; a request issues at most two  *)
(* provider calls, check and cancel at most one, and update issues its     *)
(* update call only after its get succeeded.                               *)
C21_OneResponseAtMostTwoCalls ==
  /\ [](\A c \in Clients :
          req[c].op \in {"check", "create", "update", "cancel"} =>
            /\ req[c].pc \in {"done", "list", "insert", "get", "update", "delete"}
            /\ req[c].sent = (IF req[c].pc = "done" THEN 1 ELSE 0)
            /\ req[c].pc = "done" => req[c].resp # NoResp
            /\ Len(req[c].calls) <= 2
            /\ req[c].op \in {"check", "cancel"} => Len(req[c].calls) <= 1
            /\ (req[c].op = "create" /\ Len(req[c].calls) = 2) =>
                 (req[c].calls[1].kind = "list" /\ req[c].calls[2].kind = "insert")
            /\ (req[c].op = "update" /\ Len(req[c].calls) = 2) =>
                 /\ req[c].calls[1].kind = "get" /\ req[c].calls[2].kind = "update"
                 /\ req[c].got.id = req[c].args.eventId)
  /\ [][\A c \in Clients :
          /\ (req[c].pc = "done" /\ req'[c] # req[c]) =>
               /\ Len(req'[c].calls) <= 1
               /\ req'[c].sent = (IF req'[c].pc = "done" THEN 1 ELSE 0)
          /\ (req[c].pc \notin {"idle", "done"} /\ req'[c] # req[c]) =>
               /\ req'[c].op = req[c].op /\ req'[c].args = req[c].args
               /\ req'[c].sent <= 1]_vars
  /\ \A c \in Clients :
       (req[c].op \in {"check", "create", "update", "cancel"}
          /\ req[c].pc \notin {"idle", "done"})
         ~> (req[c].pc = "done" /\ req[c].sent = 1)

C21_Witness ==
  /\ req["c1"].op = "update" /\ req["c1"].pc = "done"
  /\ Len(req["c1"].calls) = 2 /\ req["c1"].sent = 1
  /\ req["c1"].resp.result = "updated"
====
